---- MODULE Spec2Model ----
(***************************************************************************)
(* gfx device: the Client / Server pair of src/gfx/device/mod.rs.          *)
(*                                                                         *)
(* The producer thread owns the Client, the consumer thread owns the       *)
(* Server; they share one DuplexStream.  Each Client method is one step of *)
(* the producer (a call-style method is two: the send, then the blocking   *)
(* recv).  Server::update is a loop of try_recv; each iteration is one     *)
(* step of the consumer, so that the producer can run between two          *)
(* iterations, as it does on its own thread.                               *)
(***************************************************************************)
EXTENDS Integers, Sequences, FiniteSets, TLC

(* ------------------------------ bounds -------------------------------- *)
\* commands the producer sends in one session
MaxCmds == 2
\* update() calls the consumer makes in one session
MaxUpdates == 2
\* commands the producer sends in a session of casts only
MaxCasts == 3
\* commands a producer that never stops has queued ahead of the consumer
MaxQueue == 2
\* commands the producer sends in a session of clear, end_frame and the two
\* buffer calls
MaxLiveCmds == 3

(* --------------------------- value domains ---------------------------- *)
\* opaque resource names (dev::Buffer, dev::Shader, ...): plain values
Names == {1, 2}
\* Color payloads ([f32, ..4]), by identity
Colors == {0}
\* Vec<f32> / Vec<u8> payloads, by identity
Datas == {0}
\* shader kinds: the chars 'v' and 'f', as their scalar values
Kinds == {118, 102}
\* VertexCount arguments of draw and bind_attribute
Offsets == {0}
Counts == {3}
\* Vec<dev::Shader> arguments of new_program
ShaderLists == {<<>>} \cup {<<a>> : a \in Names}

VARIABLES
    requests,      \* DuplexStream, Client -> Server direction (FIFO)
    replies,       \* DuplexStream, Server -> Client direction (FIFO)
    clientState,   \* "idle" | "waiting" (in stream.recv()) | "failed" | "dropped"
    expecting,     \* the Call the producer is blocked in, or "none"
    returned,      \* what the call-style methods returned, in order
    sentLog,       \* every Request the Client sent, in order
    serverPc,      \* "idle" | "loop" (inside update's loop) | "failed"
    deviceLog,     \* every Device method invoked, in order
    replyLog,      \* every Reply the Server sent, in order
    swaps,         \* graphics_context.swap_buffers() invocations
    updates,       \* update() invocations
    lastResult,    \* what the last finished update() returned ("none" before)
    disconnectSeen,\* some try_recv has returned Err(Disconnected)
    minted,        \* every name a Device create method handed back, in order
    upd            \* the running (or last) update(): what it met and did

vars == <<requests, replies, clientState, expecting, returned, sentLog,
          serverPc, deviceLog, replyLog, swaps, updates, lastResult,
          disconnectSeen, minted, upd>>

clientVars == <<clientState, expecting, returned>>
serverVars == <<serverPc, deviceLog, replyLog, swaps, updates, lastResult,
                disconnectSeen, minted, upd>>

(* --------------------------- Request / Reply -------------------------- *)
CallTags == {"CallNewBuffer", "CallNewArrayBuffer", "CallNewShader", "CallNewProgram"}
CastTags == {"CastClear", "CastBindProgram", "CastBindArrayBuffer",
             "CastBindAttribute", "CastBindFrameBuffer", "CastDraw",
             "CastSwapBuffers"}
ReplyTags == {"ReplyNewBuffer", "ReplyNewArrayBuffer", "ReplyNewShader",
              "ReplyNewProgram"}

Request(tag, args) == [tag |-> tag, args |-> args]
Reply(tag, name) == [tag |-> tag, name |-> name]

\* VertexCount is u16
U16 == 2 ^ 16
\* `x as u32` of a VertexCount: zero-extension, every u16 value is kept
AsU32(x) == x % U16

(* ------------------------- pure parts of the code --------------------- *)
IsCall(req) == req.tag \in CallTags
IsCast(req) == req.tag \in CastTags
IsEndFrame(req) == req.tag = "CastSwapBuffers"

\* as ExpectedReply, new_shader matching the arm of new_program
ExpectedReplyShaderArmCopied(callTag) ==
    CASE callTag = "CallNewShader"      -> "ReplyNewProgram"
      [] callTag = "CallNewProgram"     -> "ReplyNewProgram"
      [] callTag = "CallNewBuffer"      -> "ReplyNewBuffer"
      [] callTag = "CallNewArrayBuffer" -> "ReplyNewArrayBuffer"

\* The Reply variant each call-style Client method accepts.
ExpectedReply(callTag) ==
    CASE callTag = "CallNewShader"      -> "ReplyNewShader"
      [] callTag = "CallNewProgram"     -> "ReplyNewProgram"
      [] callTag = "CallNewBuffer"      -> "ReplyNewBuffer"
      [] callTag = "CallNewArrayBuffer" -> "ReplyNewArrayBuffer"

\* as ServerReplyTag, the two buffer arms wrapping in each other's variant
ServerReplyTagBuffersSwapped(callTag) ==
    CASE callTag = "CallNewBuffer"      -> "ReplyNewArrayBuffer"
      [] callTag = "CallNewArrayBuffer" -> "ReplyNewBuffer"
      [] callTag = "CallNewShader"      -> "ReplyNewShader"
      [] callTag = "CallNewProgram"     -> "ReplyNewProgram"

\* as ServerReplyTag, the program arm wrapping in the shader variant
ServerReplyTagProgramAsShader(callTag) ==
    CASE callTag = "CallNewBuffer"      -> "ReplyNewBuffer"
      [] callTag = "CallNewArrayBuffer" -> "ReplyNewArrayBuffer"
      [] callTag = "CallNewShader"      -> "ReplyNewShader"
      [] callTag = "CallNewProgram"     -> "ReplyNewShader"

\* The Reply variant update() wraps the new name in, per Call arm.
ServerReplyTag(callTag) ==
    CASE callTag = "CallNewBuffer"      -> "ReplyNewBuffer"
      [] callTag = "CallNewArrayBuffer" -> "ReplyNewArrayBuffer"
      [] callTag = "CallNewShader"      -> "ReplyNewShader"
      [] callTag = "CallNewProgram"     -> "ReplyNewProgram"

\* as DeviceOp, the CastDraw arm invoking clear
DeviceOpDrawClears(req) ==
    IF req.tag = "CastDraw"
    THEN [op |-> "clear", args |-> req.args]
    ELSE [op |-> CASE req.tag = "CastClear" -> "clear"
                   [] req.tag = "CastBindProgram" -> "bind_program"
                   [] req.tag = "CastBindArrayBuffer" -> "bind_array_buffer"
                   [] req.tag = "CastBindAttribute" -> "bind_attribute"
                   [] req.tag = "CastBindFrameBuffer" -> "bind_frame_buffer"
                   [] req.tag = "CallNewBuffer" -> "create_buffer"
                   [] req.tag = "CallNewArrayBuffer" -> "create_array_buffer"
                   [] req.tag = "CallNewShader" -> "create_shader"
                   [] req.tag = "CallNewProgram" -> "create_program",
          args |-> req.args]

\* The Device method update() invokes for a received Request, with the
\* arguments it passes.  CastSwapBuffers invokes none.
DeviceOp(req) ==
    CASE req.tag = "CastClear" ->
            [op |-> "clear", args |-> req.args]
      [] req.tag = "CastBindProgram" ->
            [op |-> "bind_program", args |-> req.args]
      [] req.tag = "CastBindArrayBuffer" ->
            [op |-> "bind_array_buffer", args |-> req.args]
      [] req.tag = "CastBindAttribute" ->
            \* (index, buf, count, offset, stride): buf is not passed on
            [op |-> "bind_attribute",
             args |-> <<req.args[1], AsU32(req.args[3]), req.args[4], req.args[5]>>]
      [] req.tag = "CastBindFrameBuffer" ->
            [op |-> "bind_frame_buffer", args |-> req.args]
      [] req.tag = "CastDraw" ->
            [op |-> "draw", args |-> <<AsU32(req.args[1]), AsU32(req.args[2])>>]
      [] req.tag = "CallNewBuffer" ->
            [op |-> "create_buffer", args |-> req.args]
      [] req.tag = "CallNewArrayBuffer" ->
            [op |-> "create_array_buffer", args |-> req.args]
      [] req.tag = "CallNewShader" ->
            [op |-> "create_shader", args |-> req.args]
      [] req.tag = "CallNewProgram" ->
            [op |-> "create_program", args |-> req.args]

\* The names a Device create_* method may hand back.
DeviceCreate(req) == Names

\* The Client end of the stream is alive until the Client is dropped, which
\* also happens when a method unwinds with fail!.
ClientAlive == clientState \in {"idle", "waiting"}

\* stream.try_recv() on the Server end: queued data is handed out first, also
\* after the other end hung up; only then Empty or Disconnected.
TryRecv(queue, senderAlive) ==
    IF queue # <<>> THEN "Ok"
    ELSE IF senderAlive THEN "Empty" ELSE "Disconnected"

\* The message try_recv() / recv() takes out of a queue, and what is left.
Received(queue) == Head(queue)
Remaining(queue) == Tail(queue)

(* ------------------------------- init --------------------------------- *)
NoUpdate ==
    [startQ |-> <<>>, startDropped |-> FALSE, startSeen |-> FALSE,
     ops |-> <<>>, replies |-> <<>>, swaps |-> 0, stop |-> "none"]

Init ==
    /\ requests = <<>>
    /\ replies = <<>>
    /\ clientState = "idle"
    /\ expecting = "none"
    /\ returned = <<>>
    /\ sentLog = <<>>
    /\ serverPc = "idle"
    /\ deviceLog = <<>>
    /\ replyLog = <<>>
    /\ swaps = 0
    /\ updates = 0
    /\ lastResult = "none"
    /\ disconnectSeen = FALSE
    /\ minted = <<>>
    /\ upd = NoUpdate

(* ------------------------------ Client -------------------------------- *)
\* as Send, the Request put in front of the queued ones
SendInFront(req) ==
    /\ requests' = <<req>> \o requests
    /\ sentLog' = Append(sentLog, req)

\* self.stream.send(req)
Send(req) ==
    /\ requests' = Append(requests, req)
    /\ sentLog' = Append(sentLog, req)

\* as Cast, over a rendezvous channel: the send waits for an empty queue
CastRendezvous(req) ==
    /\ clientState = "idle"
    /\ requests = <<>>
    /\ Send(req)
    /\ UNCHANGED <<replies, clientVars, serverVars>>

\* as Cast, the method also running the Device operation on the spot
CastOnTheSpot(req) ==
    /\ clientState = "idle"
    /\ Send(req)
    /\ deviceLog' = IF IsEndFrame(req) THEN deviceLog
                        ELSE Append(deviceLog, [op |-> "cast", args |-> req.args])
    /\ UNCHANGED <<replies, clientVars, serverPc, replyLog, swaps, updates,
                   lastResult, disconnectSeen, minted, upd>>

\* a cast-style method: the send, and nothing else
Cast(req) ==
    /\ clientState = "idle"
    /\ Send(req)
    /\ UNCHANGED <<replies, clientVars, serverVars>>

\* as Call, returning to the producer without the stream.recv()
CallNoWait(req) ==
    /\ clientState = "idle"
    /\ Send(req)
    /\ UNCHANGED <<replies, clientVars, serverVars>>

\* a call-style method, up to its stream.recv()
Call(req) ==
    /\ clientState = "idle"
    /\ Send(req)
    /\ clientState' = "waiting"
    /\ expecting' = req.tag
    /\ UNCHANGED <<replies, returned, serverVars>>

clear == \E color \in Colors : Cast(Request("CastClear", <<color>>))

bind_program == \E prog \in Names : Cast(Request("CastBindProgram", <<prog>>))

bind_array_buffer ==
    \E abuf \in Names : Cast(Request("CastBindArrayBuffer", <<abuf>>))

bind_attribute ==
    \E index \in {0}, buf \in Names, count \in Counts, offset \in Offsets, stride \in {0} :
        Cast(Request("CastBindAttribute", <<index, buf, count, offset, stride>>))

bind_frame_buffer ==
    \E fbo \in Names : Cast(Request("CastBindFrameBuffer", <<fbo>>))

draw ==
    \E offset \in Offsets, count \in Counts :
        Cast(Request("CastDraw", <<offset, count>>))

end_frame == Cast(Request("CastSwapBuffers", <<>>))

new_shader ==
    \E kind \in Kinds, code \in Datas : Call(Request("CallNewShader", <<kind, code>>))

new_program ==
    \E shaders \in ShaderLists : Call(Request("CallNewProgram", shaders))

new_buffer == \E data \in Datas : Call(Request("CallNewBuffer", <<data>>))

new_array_buffer == Call(Request("CallNewArrayBuffer", <<>>))

\* as CallReturn, a Reply of another variant thrown away and the wait resumed
CallReturnResync ==
    /\ clientState = "waiting"
    /\ replies # <<>>
    /\ LET r == Received(replies) IN
         IF r.tag = ExpectedReply(expecting)
         THEN /\ clientState' = "idle"
              /\ returned' = Append(returned,
                     [call |-> expecting, reply |-> r.tag, name |-> r.name])
              /\ expecting' = "none"
         ELSE /\ clientState' = "waiting"
              /\ returned' = returned
              /\ expecting' = expecting
    /\ replies' = Remaining(replies)
    /\ UNCHANGED <<requests, sentLog, serverVars>>

\* the match on self.stream.recv() that ends every call-style method
CallReturn ==
    /\ clientState = "waiting"
    /\ replies # <<>>
    /\ LET r == Received(replies) IN
         IF r.tag = ExpectedReply(expecting)
         THEN /\ clientState' = "idle"
              /\ returned' = Append(returned,
                     [call |-> expecting, reply |-> r.tag, name |-> r.name])
         ELSE /\ clientState' = "failed"     \* fail!("unexpected device reply")
              /\ returned' = returned
    /\ replies' = Remaining(replies)
    /\ expecting' = "none"
    /\ UNCHANGED <<requests, sentLog, serverVars>>

\* the producer lets go of the Client: the transport disconnects
ClientDrop ==
    /\ clientState = "idle"
    /\ clientState' = "dropped"
    /\ UNCHANGED <<requests, replies, expecting, returned, sentLog, serverVars>>

(* ------------------------------ Server -------------------------------- *)
\* update() is entered
UpdateEnter ==
    /\ serverPc = "idle"
    /\ serverPc' = "loop"
    /\ updates' = updates + 1
    /\ upd' = [startQ |-> requests, startDropped |-> ~ClientAlive,
               startSeen |-> disconnectSeen,
               ops |-> <<>>, replies |-> <<>>, swaps |-> 0, stop |-> "none"]
    /\ UNCHANGED <<requests, replies, clientVars, sentLog, minted, deviceLog, replyLog,
                   swaps, lastResult, disconnectSeen>>

\* Ok(CastClear) .. Ok(CastDraw): the Device method, then the next iteration
UpdateCast ==
    /\ serverPc = "loop"
    /\ TryRecv(requests, ClientAlive) = "Ok"
    /\ LET req == Received(requests) IN
         /\ IsCast(req) /\ ~IsEndFrame(req)
         /\ deviceLog' = Append(deviceLog, DeviceOp(req))
         /\ upd' = [upd EXCEPT !.ops = Append(@, DeviceOp(req))]
    /\ requests' = Remaining(requests)
    /\ UNCHANGED <<replies, clientVars, sentLog, minted, serverPc, replyLog, swaps,
                   updates, lastResult, disconnectSeen>>

\* as AfterLoop, returning false
AfterLoopFalse(stop) ==
    /\ swaps' = swaps + 1
    /\ upd' = [upd EXCEPT !.swaps = @ + 1, !.stop = stop]
    /\ lastResult' = FALSE
    /\ serverPc' = "idle"

\* as AfterLoop, presenting twice
AfterLoopSwapsTwice(stop) ==
    /\ swaps' = swaps + 2
    /\ upd' = [upd EXCEPT !.swaps = @ + 2, !.stop = stop]
    /\ lastResult' = TRUE
    /\ serverPc' = "idle"

\* after the loop: self.graphics_context.swap_buffers(); true
\* (the consumer's own context: no step of the producer can fall in between
\* the break, the swap and the return)
AfterLoop(stop) ==
    /\ swaps' = swaps + 1
    /\ upd' = [upd EXCEPT !.swaps = @ + 1, !.stop = stop]
    /\ lastResult' = TRUE
    /\ serverPc' = "idle"

\* as UpdateSwapBuffers, with no break: the end-frame is taken and the loop
\* goes on
UpdateSwapBuffersContinues ==
    /\ serverPc = "loop"
    /\ TryRecv(requests, ClientAlive) = "Ok"
    /\ IsEndFrame(Received(requests))
    /\ requests' = Remaining(requests)
    /\ UNCHANGED <<replies, clientVars, sentLog, serverVars>>

\* Ok(CastSwapBuffers) => break
UpdateSwapBuffers ==
    /\ serverPc = "loop"
    /\ TryRecv(requests, ClientAlive) = "Ok"
    /\ IsEndFrame(Received(requests))
    /\ requests' = Remaining(requests)
    /\ AfterLoop("endframe")
    /\ UNCHANGED <<replies, clientVars, sentLog, minted, deviceLog, replyLog,
                   updates, disconnectSeen>>

\* as UpdateCall, without the stream.send of the Reply
UpdateCallNoSend ==
    /\ serverPc = "loop"
    /\ TryRecv(requests, ClientAlive) = "Ok"
    /\ LET req == Received(requests) IN
         /\ IsCall(req)
         /\ \E name \in DeviceCreate(req) :
                /\ deviceLog' = Append(deviceLog, DeviceOp(req))
                /\ minted' = Append(minted, name)
                /\ upd' = [upd EXCEPT !.ops = Append(@, DeviceOp(req))]
    /\ requests' = Remaining(requests)
    /\ UNCHANGED <<replies, replyLog, serverPc, clientVars, sentLog, swaps,
                   updates, lastResult, disconnectSeen>>

\* as UpdateCall, the Reply carrying the name of the Call before (a stale
\* `name` binding), the first one its own
UpdateCallStaleName ==
    /\ serverPc = "loop"
    /\ TryRecv(requests, ClientAlive) = "Ok"
    /\ LET req == Received(requests) IN
         /\ IsCall(req)
         /\ \E name \in DeviceCreate(req) :
              LET stale == IF minted = <<>> THEN name ELSE minted[Len(minted)]
                  reply == Reply(ServerReplyTag(req.tag), stale) IN
                /\ deviceLog' = Append(deviceLog, DeviceOp(req))
                /\ minted' = Append(minted, name)
                /\ replies' = Append(replies, reply)
                /\ replyLog' = Append(replyLog, reply)
                /\ upd' = [upd EXCEPT !.ops = Append(@, DeviceOp(req)),
                                      !.replies = Append(@, reply)]
    /\ requests' = Remaining(requests)
    /\ UNCHANGED <<serverPc, clientVars, sentLog, swaps, updates, lastResult,
                   disconnectSeen>>

\* Ok(CallNew..): the Device create method, then the Reply is sent.  The send
\* fails the consumer when the Client end is gone.
UpdateCall ==
    /\ serverPc = "loop"
    /\ TryRecv(requests, ClientAlive) = "Ok"
    /\ LET req == Received(requests) IN
         /\ IsCall(req)
         /\ \E name \in DeviceCreate(req) :
              LET reply == Reply(ServerReplyTag(req.tag), name) IN
                /\ deviceLog' = Append(deviceLog, DeviceOp(req))
                /\ minted' = Append(minted, name)
                /\ IF ClientAlive
                   THEN /\ replies' = Append(replies, reply)
                        /\ replyLog' = Append(replyLog, reply)
                        /\ upd' = [upd EXCEPT !.ops = Append(@, DeviceOp(req)),
                                              !.replies = Append(@, reply)]
                        /\ serverPc' = serverPc
                   ELSE /\ replies' = replies
                        /\ replyLog' = replyLog
                        /\ upd' = [upd EXCEPT !.ops = Append(@, DeviceOp(req))]
                        /\ serverPc' = "failed"
    /\ requests' = Remaining(requests)
    /\ UNCHANGED <<clientVars, sentLog, swaps, updates, lastResult, disconnectSeen>>

\* Err(comm::Empty) => break
UpdateEmpty ==
    /\ serverPc = "loop"
    /\ TryRecv(requests, ClientAlive) = "Empty"
    /\ AfterLoop("empty")
    /\ UNCHANGED <<requests, replies, clientVars, sentLog, minted, deviceLog, replyLog,
                   updates, disconnectSeen>>

\* as UpdateDisconnected, with break in place of return false
UpdateDisconnectedBreaks ==
    /\ serverPc = "loop"
    /\ TryRecv(requests, ClientAlive) = "Disconnected"
    /\ disconnectSeen' = TRUE
    /\ swaps' = swaps + 1
    /\ upd' = [upd EXCEPT !.swaps = @ + 1, !.stop = "disconnected"]
    /\ lastResult' = TRUE
    /\ serverPc' = "idle"
    /\ UNCHANGED <<requests, replies, clientVars, sentLog, minted, deviceLog, replyLog,
                   updates>>

\* as UpdateDisconnected, presenting before it returns false
UpdateDisconnectedPresents ==
    /\ serverPc = "loop"
    /\ TryRecv(requests, ClientAlive) = "Disconnected"
    /\ disconnectSeen' = TRUE
    /\ swaps' = swaps + 1
    /\ upd' = [upd EXCEPT !.swaps = @ + 1, !.stop = "disconnected"]
    /\ lastResult' = FALSE
    /\ serverPc' = "idle"
    /\ UNCHANGED <<requests, replies, clientVars, sentLog, minted, deviceLog,
                   replyLog, updates>>

\* Err(comm::Disconnected) => return false
UpdateDisconnected ==
    /\ serverPc = "loop"
    /\ TryRecv(requests, ClientAlive) = "Disconnected"
    /\ serverPc' = "idle"
    /\ lastResult' = FALSE
    /\ disconnectSeen' = TRUE
    /\ upd' = [upd EXCEPT !.stop = "disconnected"]
    /\ UNCHANGED <<requests, replies, clientVars, sentLog, minted, deviceLog, replyLog,
                   swaps, updates>>

(* --------------------------- specification ---------------------------- *)
CanSend == Len(sentLog) < MaxCmds
CanUpdate == updates < MaxUpdates

ClientCast ==
    \/ clear
    \/ bind_program
    \/ bind_array_buffer
    \/ bind_attribute
    \/ bind_frame_buffer
    \/ draw
    \/ end_frame

ClientCall ==
    \/ new_shader
    \/ new_program
    \/ new_buffer
    \/ new_array_buffer

Update ==
    \/ UpdateCast
    \/ UpdateSwapBuffers
    \/ UpdateCall
    \/ UpdateEmpty
    \/ UpdateDisconnected

Next ==
    \/ CanSend /\ ClientCast
    \/ CanSend /\ ClientCall
    \/ CallReturn
    \/ ClientDrop
    \/ CanUpdate /\ UpdateEnter
    \/ Update

Spec == Init /\ [][Next]_vars

(* A session of cast-style methods only: frames of casts closed by        *)
(* end_frame, drained by update().                                        *)
FrameNext ==
    \/ Len(sentLog) < MaxCasts /\ ClientCast
    \/ ClientDrop
    \/ CanUpdate /\ UpdateEnter
    \/ UpdateCast
    \/ UpdateSwapBuffers
    \/ UpdateEmpty
    \/ UpdateDisconnected

SpecFrame == Init /\ [][FrameNext]_vars

(* The producer of the shader scenario: two shaders, the program linked   *)
(* from the two names it got back, the program bound, the frame closed.   *)
ScenarioNext ==
    \/ Len(sentLog) = 0 /\ \E code \in Datas : Call(Request("CallNewShader", <<118, code>>))
    \/ Len(sentLog) = 1 /\ \E code \in Datas : Call(Request("CallNewShader", <<102, code>>))
    \/ Len(sentLog) = 2 /\ Call(Request("CallNewProgram", <<returned[1].name, returned[2].name>>))
    \/ Len(sentLog) = 3 /\ Cast(Request("CastBindProgram", <<returned[3].name>>))
    \/ Len(sentLog) = 4 /\ end_frame
    \/ CallReturn
    \/ ClientDrop
    \/ CanUpdate /\ UpdateEnter
    \/ Update

SpecScenario == Init /\ [][ScenarioNext]_vars

(* The two threads under their scheduling: the consumer thread runs, so a  *)
(* started update() takes its next step and update() is called again as    *)
(* long as calls are left; a producer blocked in recv() wakes once a Reply *)
(* is there.  The producer casts clear and end_frame and calls the two     *)
(* buffer methods.                                                         *)
LiveNext ==
    \/ Len(sentLog) < MaxLiveCmds /\ clear
    \/ Len(sentLog) < MaxLiveCmds /\ end_frame
    \/ Len(sentLog) < MaxLiveCmds /\ new_buffer
    \/ Len(sentLog) < MaxLiveCmds /\ new_array_buffer
    \/ CallReturn
    \/ ClientDrop
    \/ CanUpdate /\ UpdateEnter
    \/ Update

SpecLive ==
    /\ Init /\ [][LiveNext]_vars
    /\ WF_vars(CanUpdate /\ UpdateEnter)
    /\ WF_vars(Update)
    /\ WF_vars(CallReturn)

(* The Client taken alone: whatever holds the other end of its stream     *)
(* takes the Requests and answers a waiting call with a Reply of any       *)
(* variant.                                                                *)
PeerReply ==
    /\ clientState = "waiting"
    /\ replies = <<>>
    /\ \E tag \in ReplyTags, name \in Names :
          /\ replies' = <<Reply(tag, name)>>
          /\ replyLog' = Append(replyLog, Reply(tag, name))
    /\ requests' = <<>>
    /\ UNCHANGED <<clientVars, sentLog, serverPc, deviceLog, swaps, updates,
                   lastResult, disconnectSeen, minted, upd>>

ClientNext ==
    \/ CanSend /\ ClientCast
    \/ CanSend /\ ClientCall
    \/ PeerReply
    \/ CallReturn

SpecClient == Init /\ [][ClientNext]_vars

(* A producer that never stops: it casts clear, draw and end_frame for as *)
(* long as it likes, at most MaxQueue commands ahead of the consumer.  The *)
(* logs of the session would grow for ever and are not kept here; the      *)
(* transport, the two threads and update()'s own record are as above.  The *)
(* consumer thread runs: inside the loop it takes its next step.           *)
CastUnlogged(req) ==
    /\ clientState = "idle"
    /\ requests' = Append(requests, req)
    /\ UNCHANGED <<replies, clientVars, sentLog, serverVars>>

UpdateCastUnlogged ==
    /\ serverPc = "loop"
    /\ TryRecv(requests, ClientAlive) = "Ok"
    /\ IsCast(Received(requests)) /\ ~IsEndFrame(Received(requests))
    /\ requests' = Remaining(requests)
    /\ UNCHANGED <<replies, clientVars, sentLog, serverVars>>

UpdateLoop ==
    \/ UpdateCastUnlogged
    \/ UpdateSwapBuffers
    \/ UpdateEmpty
    \/ UpdateDisconnected

StreamNext ==
    \/ Len(requests) < MaxQueue /\ \E color \in Colors :
            CastUnlogged(Request("CastClear", <<color>>))
    \/ Len(requests) < MaxQueue /\ \E offset \in Offsets, count \in Counts :
            CastUnlogged(Request("CastDraw", <<offset, count>>))
    \/ Len(requests) < MaxQueue /\ CastUnlogged(Request("CastSwapBuffers", <<>>))
    \/ ClientDrop
    \/ CanUpdate /\ UpdateEnter
    \/ UpdateLoop

SpecStream == Init /\ [][StreamNext]_vars /\ WF_vars(UpdateLoop)

(* ============================== claims ================================ *)
\* what the vocabulary pairs: each Call with its Reply variant, each Request
\* with the Device Executor operation of the same name
MatchingVariant(callTag) ==
    CASE callTag = "CallNewBuffer"      -> "ReplyNewBuffer"
      [] callTag = "CallNewArrayBuffer" -> "ReplyNewArrayBuffer"
      [] callTag = "CallNewShader"      -> "ReplyNewShader"
      [] callTag = "CallNewProgram"     -> "ReplyNewProgram"

MatchingOp(tag) ==
    CASE tag = "CastClear"           -> "clear"
      [] tag = "CastBindProgram"     -> "bind_program"
      [] tag = "CastBindArrayBuffer" -> "bind_array_buffer"
      [] tag = "CastBindAttribute"   -> "bind_attribute"
      [] tag = "CastBindFrameBuffer" -> "bind_frame_buffer"
      [] tag = "CastDraw"            -> "draw"
      [] tag = "CallNewBuffer"       -> "create_buffer"
      [] tag = "CallNewArrayBuffer"  -> "create_array_buffer"
      [] tag = "CallNewShader"       -> "create_shader"
      [] tag = "CallNewProgram"      -> "create_program"

NotEndFrame(req) == ~IsEndFrame(req)
Dispatchable(s) == SelectSeq(s, NotEndFrame)
CallsOf(s) == SelectSeq(s, IsCall)
EndFramesIn(s) == Len(SelectSeq(s, IsEndFrame))
\* an update() has run to its return
UpdateDone == serverPc = "idle" /\ updates > 0
\* this step is the Server taking one Request off the transport
ServerTakes == Len(requests') = Len(requests) - 1
\* this step is the Client sending one Request
ClientSends == Len(sentLog') = Len(sentLog) + 1

(* C1: every Call the Server receives makes it send exactly one Reply, of  *)
(* the variant matching the Call; a Cast (end-frame too) makes it send     *)
(* none; and no Reply is sent but for a received Call.                     *)
C1_OneReplyPerCall ==
    [][ /\ ServerTakes =>
             LET req == Head(requests) IN
               IF IsCall(req)
               THEN /\ Len(replyLog') = Len(replyLog) + 1
                    /\ SubSeq(replyLog', 1, Len(replyLog)) = replyLog
                    /\ replyLog'[Len(replyLog')].tag = MatchingVariant(req.tag)
                    /\ replies' = Append(replies, replyLog'[Len(replyLog')])
               ELSE replyLog' = replyLog /\ replies' = replies
        /\ replyLog' # replyLog => ServerTakes /\ IsCall(Head(requests))
      ]_vars

\* both kinds were received: a Call answered, a Cast passed without a Reply
C1_Witness ==
    /\ Len(replyLog) = 1
    /\ Len(deviceLog) = 2
    /\ \E i \in 1..2 : IsCast(sentLog[i])
    /\ requests = <<>>

(* C2: with the Client issuing its calls one at a time, every call-style   *)
(* method returns the handle variant of its own request, whatever casts    *)
(* and update() calls come in between; "unexpected device reply" is never  *)
(* reached.                                                                *)
C2_CallsReturnOwnVariant ==
    /\ clientState # "failed"
    /\ Len(returned) <= Len(CallsOf(sentLog))
    /\ \A i \in 1..Len(returned) :
          /\ returned[i].call = CallsOf(sentLog)[i].tag
          /\ returned[i].reply = MatchingVariant(returned[i].call)

\* two calls of different types have returned
C2_Witness ==
    /\ Len(returned) = 2
    /\ returned[1].call # returned[2].call
    /\ clientState = "idle"

(* C3: when update() is called with the queue holding casts followed by    *)
(* one end_frame, that one update() invokes the matching Device operation  *)
(* for every cast once, in send order, then presents once and returns true.*)
IsFrame(q) ==
    /\ Len(q) >= 1
    /\ IsEndFrame(q[Len(q)])
    /\ \A i \in 1..(Len(q) - 1) : IsCast(q[i]) /\ ~IsEndFrame(q[i])

C3_FrameDrainedByOneUpdate ==
    (UpdateDone /\ IsFrame(upd.startQ)) =>
        /\ Len(upd.ops) = Len(upd.startQ) - 1
        /\ \A i \in 1..Len(upd.ops) : upd.ops[i].op = MatchingOp(upd.startQ[i].tag)
        /\ upd.swaps = 1
        /\ upd.stop = "endframe"
        /\ lastResult = TRUE

\* clear, draw(0, 3), end_frame, drained by one update()
C3_Witness ==
    /\ UpdateDone
    /\ Len(upd.startQ) = 3
    /\ IsFrame(upd.startQ)
    /\ upd.startQ[1].tag = "CastClear"
    /\ upd.startQ[2] = Request("CastDraw", <<0, 3>>)
    /\ Len(upd.ops) = 2

(* C4: an update() that stops draining because the queue is empty (still   *)
(* connected) returns true and triggers no swap_buffers().                 *)
C4_EmptyQueueNoPresentation ==
    (UpdateDone /\ upd.stop = "empty") => (lastResult = TRUE /\ upd.swaps = 0)

(* C5: once the Client end is dropped, every update() called afterwards    *)
(* returns false and dispatches nothing, also when commands were still     *)
(* queued when the Client was dropped.                                     *)
C5_Original ==
    (UpdateDone /\ upd.startDropped) => (lastResult = FALSE /\ upd.ops = <<>>)

(* C5, amended: once an update() has seen try_recv report Disconnected,    *)
(* every later update() returns false, dispatches nothing, sends no Reply  *)
(* and does not present.                                                   *)
C5_AfterDisconnectedSeen ==
    upd.startSeen =>
        /\ upd.ops = <<>>
        /\ upd.replies = <<>>
        /\ upd.swaps = 0
        /\ serverPc = "idle" => lastResult = FALSE

\* the commands left queued by the dropped Client were dispatched, the
\* disconnection was reported, and update() was called once more
C5_Witness ==
    /\ UpdateDone
    /\ upd.startSeen
    /\ deviceLog # <<>>

(* C6: the number of swap_buffers() invocations equals the number of       *)
(* end-frame commands the Server has received.                             *)
C6_SwapsEqualEndFrames ==
    serverPc = "idle" => swaps = EndFramesIn(sentLog) - EndFramesIn(requests)

(* C7: the Device operations performed so far are, in order, those of a    *)
(* prefix of the non-end-frame commands sent: none skipped, duplicated or  *)
(* reordered; the Replies sent are, in order, those of the Calls in that   *)
(* prefix.                                                                 *)
C7_DispatchInSendOrder ==
    LET cmds == Dispatchable(sentLog)
        done == SubSeq(cmds, 1, Len(deviceLog))
    IN  /\ Len(deviceLog) <= Len(cmds)
        /\ \A i \in 1..Len(deviceLog) :
              /\ deviceLog[i].op = MatchingOp(cmds[i].tag)
              /\ cmds[i].tag # "CastBindAttribute" => deviceLog[i].args = cmds[i].args
        /\ Len(replyLog) = Len(CallsOf(done))
        /\ \A i \in 1..Len(replyLog) :
              replyLog[i].tag = MatchingVariant(CallsOf(done)[i].tag)

\* two different commands went through, over two update() calls, one a Call
C7_Witness ==
    /\ Len(deviceLog) = 2
    /\ deviceLog[1].op # deviceLog[2].op
    /\ Len(replyLog) = 1
    /\ updates = 2

(* C8: a cast-style method never waits: whenever the producer is not       *)
(* inside a call it can cast, whatever the queue holds and whether or not  *)
(* update() has run, and the cast enqueues exactly one command and leaves  *)
(* the producer running; only a call-style method waits, for its own Reply.*)
C8_CastsNeverSuspend ==
    /\ [](clientState = "idle" => ENABLED ClientCast)
    /\ [](clientState = "waiting" =>
             /\ sentLog # <<>>
             /\ IsCall(sentLog[Len(sentLog)])
             /\ expecting = sentLog[Len(sentLog)].tag)
    /\ [][ClientSends =>
             LET req == sentLog'[Len(sentLog')] IN
               /\ requests' = Append(requests, req)
               /\ replies' = replies
               /\ clientState' = IF IsCast(req) THEN "idle" ELSE "waiting"
          ]_vars

\* a cast went through behind two queued commands, no update() having run
C8_Witness ==
    /\ Len(requests) = 2
    /\ IsCast(requests[2])
    /\ updates = 0
    /\ clientState = "idle"

(* C9: after new_shader('v'), new_shader('f'), new_program([h1, h2]), one  *)
(* single update() call produces the three Replies.                        *)
C9_Original ==
    (Len(replyLog) = 3 /\ upd.replies # <<>>) => upd.replies = replyLog

(* C9, amended: the Replies to new_shader('v'), new_shader('f'),           *)
(* new_program([h1, h2]) are produced in the order ReplyNewShader,         *)
(* ReplyNewShader, ReplyNewProgram, by as many update() calls as it takes; *)
(* the program handle returned, passed to bind_program, is dispatched to   *)
(* the Device and produces no Reply.                                       *)
C9_ScenarioReplies ==
    LET order == <<"ReplyNewShader", "ReplyNewShader", "ReplyNewProgram">> IN
    /\ Len(replyLog) <= 3
    /\ \A i \in 1..Len(replyLog) : replyLog[i].tag = order[i]
    /\ Len(returned) = 3 => returned[3].reply = "ReplyNewProgram"
    /\ (Len(sentLog) >= 4 /\ Len(requests) <= Len(sentLog) - 4) =>
          /\ Len(replyLog) = 3
          /\ Len(deviceLog) = 4
          /\ deviceLog[4] = [op |-> "bind_program", args |-> <<returned[3].name>>]

\* the bound program was dispatched, the three Replies having come from
\* one update() call
C9_Witness ==
    /\ Len(deviceLog) = 4
    /\ deviceLog[4].op = "bind_program"
    /\ Len(upd.replies) = 3

(* C10: update() returns false exactly when its try_recv reported          *)
(* Disconnected; stopping on end-frame or on an empty queue it returns     *)
(* true.                                                                   *)
C10_FalseIffDisconnected ==
    UpdateDone =>
        /\ lastResult = FALSE <=> upd.stop = "disconnected"
        /\ upd.stop \in {"endframe", "empty"} => lastResult = TRUE
        /\ upd.stop \in {"endframe", "empty", "disconnected"}

\* an update() dispatched a command, then met the disconnection
C10_Witness ==
    /\ UpdateDone
    /\ lastResult = FALSE
    /\ upd.ops # <<>>


(* C11: on receiving end-frame update() stops draining at once: what is    *)
(* queued behind the end-frame stays in the transport, unchanged and in    *)
(* order, and nothing of it is dispatched before a later update() call; a  *)
(* single update() consumes at most one end-frame.                         *)
C11_EndFrameStopsDraining ==
    /\ [](serverPc = "loop" => upd.stop = "none")
    /\ [][ /\ (ServerTakes /\ IsEndFrame(Head(requests))) =>
               /\ requests' = Tail(requests)
               /\ serverPc' = "idle"
               /\ upd'.stop = "endframe"
               /\ deviceLog' = deviceLog
               /\ replyLog' = replyLog
           /\ (ServerTakes \/ deviceLog' # deviceLog) => serverPc = "loop"
         ]_vars

\* an update() stopped on end-frame with a command left queued behind it
C11_Witness ==
    /\ UpdateDone
    /\ upd.stop = "endframe"
    /\ Len(upd.startQ) = 2
    /\ IsEndFrame(upd.startQ[1])
    /\ requests = <<upd.startQ[2]>>


(* C12: a producer blocked in a call-style method gets its Reply and       *)
(* returns, provided the consumer goes on calling update(): one call for   *)
(* each end-frame queued ahead of the Call, and one more.                  *)
C12_BlockedCallReturns ==
    (clientState = "waiting" /\ MaxUpdates - updates >= EndFramesIn(requests) + 1)
        ~> (clientState = "idle")

\* clear, end_frame, then a call: answered by the second update()
C12_Witness ==
    /\ Len(sentLog) = 3
    /\ IsCast(sentLog[1]) /\ IsEndFrame(sentLog[2]) /\ IsCall(sentLog[3])
    /\ Len(returned) = 1
    /\ updates = 2
    /\ upd.replies # <<>>
    /\ swaps = 2


(* C13: the handle a call-style method returns is the one the Device       *)
(* minted when the Server dispatched that very Call, and the handle given  *)
(* to bind_program, bind_array_buffer or bind_frame_buffer reaches the     *)
(* Device unchanged.                                                       *)
HandleCasts == {"CastBindProgram", "CastBindArrayBuffer", "CastBindFrameBuffer"}

C13_HandlesUnchanged ==
    LET cmds == Dispatchable(sentLog)
        created == {i \in 1..Len(deviceLog) : IsCall(cmds[i])}
    IN  /\ Len(minted) = Cardinality(created)
        /\ Len(returned) <= Len(minted)
        /\ \A i \in 1..Len(returned) :
              /\ returned[i].name = minted[i]
              /\ returned[i].call = CallsOf(sentLog)[i].tag
        /\ \A i \in 1..Len(deviceLog) :
              cmds[i].tag \in HandleCasts =>
                  deviceLog[i] = [op |-> MatchingOp(cmds[i].tag), args |-> cmds[i].args]

\* two calls returned different handles, in the order they were minted
C13_Witness ==
    /\ Len(returned) = 2
    /\ returned[1].name # returned[2].name
    /\ minted = <<returned[1].name, returned[2].name>>

\* a handle cast was dispatched with the handle a call had returned
C13_WitnessCast ==
    /\ Len(returned) = 1
    /\ Len(deviceLog) = 2
    /\ sentLog[2].tag \in HandleCasts
    /\ deviceLog[2].args = <<returned[1].name>>


(* C14: the Device and the graphics context are touched only inside        *)
(* update(): no Client method, cast or call, invokes a Device operation,   *)
(* mints a name or presents; a sent command has no effect on the Device    *)
(* before an update() receives it.                                         *)
DeviceTouched ==
    deviceLog' # deviceLog \/ minted' # minted \/ swaps' # swaps

C14_DeviceOnlyInsideUpdate ==
    /\ [](Len(deviceLog) + Len(Dispatchable(requests)) = Len(Dispatchable(sentLog)))
    /\ [][ /\ DeviceTouched => (serverPc = "loop" /\ clientVars' = clientVars
                                  /\ sentLog' = sentLog)
           /\ (ClientSends \/ clientVars' # clientVars) => ~DeviceTouched
         ]_vars

\* one command dispatched by an update(), the next one sent and still
\* waiting, no update() running
C14_Witness ==
    /\ Len(deviceLog) = 1
    /\ Len(Dispatchable(requests)) = 1
    /\ serverPc = "idle"
    /\ updates = 1


(* C15: a call-style method that receives a Reply of a variant other than  *)
(* its own aborts ("unexpected device reply") and returns no handle: it    *)
(* takes no handle out of the mismatched Reply and does not wait for a     *)
(* second Reply.                                                           *)
C15_MismatchedReplyAborts ==
    /\ [](\A i \in 1..Len(returned) :
              returned[i].reply = MatchingVariant(returned[i].call))
    /\ [][ /\ Len(replies') < Len(replies) =>
               LET r == Head(replies) IN
                 /\ clientState = "waiting"
                 /\ replies' = Tail(replies)
                 /\ IF r.tag = MatchingVariant(expecting)
                    THEN /\ clientState' = "idle"
                         /\ returned' = Append(returned,
                                [call |-> expecting, reply |-> r.tag, name |-> r.name])
                    ELSE /\ clientState' = "failed"
                         /\ returned' = returned
           /\ clientState = "failed" =>
                 (clientState' = "failed" /\ returned' = returned /\ sentLog' = sentLog)
         ]_vars

\* a first call returned its handle, the second one met a mismatched Reply
C15_Witness ==
    /\ clientState = "failed"
    /\ Len(returned) = 1
    /\ Len(CallsOf(sentLog)) = 2
    /\ replyLog[2].tag # MatchingVariant(sentLog[2].tag)


(* C16: with the Client issuing one call at a time, the reply direction    *)
(* of the transport holds at most one Reply, and none while the producer   *)
(* is not blocked in a call-style method; Calls sent minus Replies         *)
(* consumed is always 0 or 1.                                              *)
C16_AtMostOneReplyInFlight ==
    LET consumed == Len(replyLog) - Len(replies) IN
    /\ Len(replies) <= 1
    /\ clientState # "waiting" => replies = <<>>
    /\ consumed = Len(returned)
    /\ Len(CallsOf(sentLog)) - consumed \in {0, 1}
    /\ Len(CallsOf(sentLog)) - consumed = 1 <=> clientState = "waiting"

\* the second call's Reply is in the transport, the producer still blocked
C16_Witness ==
    /\ Len(replies) = 1
    /\ clientState = "waiting"
    /\ Len(returned) = 1


(* C17: an update() triggers at most one swap_buffers(), and when it does, *)
(* every Device operation and every Reply send of that update() has come   *)
(* before it.                                                              *)
C17_OneSwapLast ==
    /\ [](upd.swaps <= 1 /\ (serverPc = "loop" => upd.swaps = 0))
    /\ [][ /\ swaps' # swaps =>
               /\ swaps' = swaps + 1
               /\ upd'.swaps = 1
               /\ serverPc = "loop" /\ serverPc' = "idle"
               /\ deviceLog' = deviceLog /\ replyLog' = replyLog
           /\ (deviceLog' # deviceLog \/ replyLog' # replyLog) =>
               (upd.swaps = 0 /\ upd'.swaps = 0 /\ serverPc' = "loop")
         ]_vars

\* an update() invoked the Device, sent a Reply, then presented once
C17_Witness ==
    /\ UpdateDone
    /\ upd.swaps = 1
    /\ Len(upd.ops) = 2
    /\ Len(upd.replies) = 1

(* C18: an update() that meets the disconnection returns false without     *)
(* swap_buffers(), also when it dispatched commands earlier in the same    *)
(* call.                                                                   *)
C18_DisconnectedNoSwap ==
    /\ [](upd.stop = "disconnected" => (upd.swaps = 0 /\ lastResult = FALSE))
    /\ [][(~disconnectSeen /\ disconnectSeen') =>
              (swaps' = swaps /\ lastResult' = FALSE /\ serverPc' = "idle")]_vars

\* two commands dispatched, then the disconnection met, nothing presented
C18_Witness ==
    /\ UpdateDone
    /\ upd.stop = "disconnected"
    /\ Len(upd.ops) = 2
    /\ swaps = 0


(* C19: every update() invocation eventually returns, whatever the         *)
(* producer does, also when it keeps enqueuing casts while update() is     *)
(* draining.                                                               *)
C19_Original == (serverPc = "loop") ~> (serverPc = "idle")

(* C19, amended: an update() invocation eventually returns once an         *)
(* end-frame is queued or the Client end is dropped.                       *)
C19_ReturnsOnceProducerStops ==
    (serverPc = "loop" /\ (EndFramesIn(requests) > 0 \/ clientState = "dropped"))
        ~> (serverPc = "idle")

\* an update() entered on an empty queue, fed by the producer while it was
\* draining, returned on the end-frame with more queued behind it
C19_Witness ==
    /\ UpdateDone
    /\ upd.startQ = <<>>
    /\ upd.stop = "endframe"
    /\ requests # <<>>

====
